---- MODULE Spec2Model ----
(***************************************************************************)
(* A model of VMManager (src/virtual_memory.py): two-level address         *)
(* translation over a flat physical memory, demand paging with LFU         *)
(* eviction, and the contiguous block allocator malloc/free/realloc that   *)
(* shares the frame pool.                                                  *)
(*                                                                         *)
(* The manager object is carried through the operators as a record vm with *)
(* the fields of the Python object; every method is an operator from vm    *)
(* (and its arguments) to the set of its possible outcomes.  The only      *)
(* nondeterminism is the tie-break of min() over a set in evict_lfu_frame. *)
(***************************************************************************)
EXTENDS Integers, Sequences, FiniteSets, TLC

VARIABLES phase, PM, DISK, used_frames, next_free_frame, highest_frame,
          frame_access_count, allocations, last, nonpos_calls

vars == <<phase, PM, DISK, used_frames, next_free_frame, highest_frame,
          frame_access_count, allocations, last, nonpos_calls>>

(***************************************************************************)
(* Sizes.  FRAME_SIZE is the program's 512.  MAX_FRAMES stands for the     *)
(* program's 1024 frames (len(PM) = MAX_FRAMES * FRAME_SIZE, the pool      *)
(* capacity test and malloc's MAX_FRAMES), scaled down so that a full pool *)
(* is reachable.  MaxAccess caps the sum of the access counters, and       *)
(* MaxNonPositive the number of malloc and realloc requests of a size of   *)
(* 0 or less.                                                              *)
(***************************************************************************)
FRAME_SIZE == 512

MAX_FRAMES == 5

MaxAccess == 4

MaxNonPositive == 1

PMLen == MAX_FRAMES * FRAME_SIZE

Max(a, b) == IF a >= b THEN a ELSE b

\* math.ceil(size / FRAME_SIZE)
CeilDiv(a, b) == -((-a) \div b)

\* [0, 1, ..., n-1] shifted by c: the frames cur_frame + offset, offset in range(n)
RunSeq(c, n) == [i \in 1..Max(n, 0) |-> c + i - 1]

SeqRange(q) == {q[i] : i \in 1..Len(q)}

\* list.remove(x): the list without its first occurrence of x
RECURSIVE ListRemove(_, _)
ListRemove(q, x) ==
    IF q = <<>> THEN <<>>
    ELSE IF Head(q) = x THEN Tail(q)
    ELSE <<Head(q)>> \o ListRemove(Tail(q), x)

\* Python slices q[:k] and q[k:], k possibly negative
PyIndex(q, k) == IF k < 0 THEN Max(Len(q) + k, 0) ELSE IF k > Len(q) THEN Len(q) ELSE k
SliceTo(q, k) == SubSeq(q, 1, PyIndex(q, k))
SliceFrom(q, k) == SubSeq(q, PyIndex(q, k) + 1, Len(q))

(***************************************************************************)
(* Physical memory and disk are kept sparse: the words never written are 0.*)
(***************************************************************************)
PMRead(pm, i) == IF i \in DOMAIN pm THEN pm[i] ELSE 0

PMWrite(pm, i, v) == [j \in DOMAIN pm \cup {i} |-> IF j = i THEN v ELSE pm[j]]

\* the object as a record
VM == [PM |-> PM, DISK |-> DISK, used_frames |-> used_frames,
       next_free_frame |-> next_free_frame, highest_frame |-> highest_frame,
       frame_access_count |-> frame_access_count, allocations |-> allocations]

\* __init__
NewVM == [PM |-> <<>>, DISK |-> <<>>, used_frames |-> {0, 1},
          next_free_frame |-> 2, highest_frame |-> 1,
          frame_access_count |-> <<>>, allocations |-> <<>>]

(***************************************************************************)
(* get_next_free_frame                                                     *)
(***************************************************************************)
FirstFreeFrom(used, start) ==
    CHOOSE f \in start..(start + Cardinality(used)) :
        /\ f \notin used
        /\ \A g \in start..(f - 1) : g \in used

get_next_free_frame(vm) ==
    LET frame == FirstFreeFrom(vm.used_frames,
                               Max(vm.next_free_frame, vm.highest_frame + 1))
    IN  [vm |-> [vm EXCEPT !.used_frames = @ \cup {frame},
                           !.next_free_frame = frame + 1],
         frame |-> frame]

(***************************************************************************)
(* initialize_from_file: the two lines of the file as sequences of triples *)
(***************************************************************************)
RECURSIVE InitSegments(_, _)
InitSegments(vm, line) ==
    IF line = <<>> THEN vm
    ELSE LET s == Head(line)[1]
             z == Head(line)[2]
             frame == Head(line)[3]
             pm == PMWrite(PMWrite(vm.PM, 2 * s, z), 2 * s + 1, frame)
         IN  InitSegments(
                 IF frame > 0
                 THEN [vm EXCEPT !.PM = pm,
                                 !.used_frames = @ \cup {frame},
                                 !.highest_frame = Max(@, frame)]
                 ELSE [vm EXCEPT !.PM = pm],
                 Tail(line))

RECURSIVE InitPages(_, _)
InitPages(vm, line) ==
    IF line = <<>> THEN vm
    ELSE LET s == Head(line)[1]
             p == Head(line)[2]
             frame == Head(line)[3]
             pt == PMRead(vm.PM, 2 * s + 1)
         IN  InitPages(
                 IF pt > 0
                 THEN IF frame > 0
                      THEN [vm EXCEPT !.PM = PMWrite(@, pt * FRAME_SIZE + p, frame),
                                      !.used_frames = @ \cup {frame},
                                      !.highest_frame = Max(@, frame)]
                      ELSE [vm EXCEPT !.PM = PMWrite(@, pt * FRAME_SIZE + p, frame)]
                 ELSE IF frame > 0
                      THEN [vm EXCEPT !.DISK = PMWrite(@, <<-pt, p>>, frame),
                                      !.highest_frame = Max(@, frame)]
                      ELSE [vm EXCEPT !.DISK = PMWrite(@, <<-pt, p>>, frame)],
                 Tail(line))

initialize_from_file(vm, file) ==
    LET v == InitPages(InitSegments(vm, file.segments), file.pages)
    IN  [v EXCEPT !.next_free_frame = v.highest_frame + 1]

(***************************************************************************)
(* access_frame and evict_lfu_frame                                        *)
(***************************************************************************)
Count(fac, f) == IF f \in DOMAIN fac THEN fac[f] ELSE 0

\* a faulty access_frame, which stores 1 instead of counting up
access_frame_reset(vm, frame_number) ==
    [vm EXCEPT !.frame_access_count =
        [f \in DOMAIN @ \cup {frame_number} |-> IF f = frame_number THEN 1 ELSE @[f]]]

access_frame(vm, frame_number) ==
    [vm EXCEPT !.frame_access_count =
        [f \in DOMAIN @ \cup {frame_number} |->
            IF f = frame_number THEN Count(@, f) + 1 ELSE @[f]]]

Reserved == {0, 1}

\* faulty candidates, which do not exclude the reserved frames
candidate_frames_all(vm) == vm.used_frames

\* faulty candidates: none, so that eviction always reports None
candidate_frames_none(vm) == {}

candidate_frames(vm) == vm.used_frames \ Reserved

\* a faulty choice, which may return any candidate whatever its count
LfuFrames_any(vm) == candidate_frames(vm)

\* the frames min(candidate_frames, key = count) may return
LfuFrames(vm) ==
    {f \in candidate_frames(vm) :
        \A g \in candidate_frames(vm) :
            Count(vm.frame_access_count, f) <= Count(vm.frame_access_count, g)}

DropKey(fn, k) == [x \in DOMAIN fn \ {k} |-> fn[x]]

EvictFrame(vm, lfu_frame) ==
    [vm EXCEPT !.used_frames = @ \ {lfu_frame},
               !.frame_access_count = DropKey(@, lfu_frame)]

\* the set of outcomes: ok = FALSE is the code's None
evict_lfu_frame(vm) ==
    IF candidate_frames(vm) = {}
    THEN {[vm |-> vm, ok |-> FALSE, frame |-> 0]}
    ELSE {[vm |-> EvictFrame(vm, f), ok |-> TRUE, frame |-> f] : f \in LfuFrames(vm)}

(***************************************************************************)
(* handle_page_fault.  An outcome records the frame used (ok = FALSE is    *)
(* None), the frames get_next_free_frame returned and the frames           *)
(* evict_lfu_frame chose, in order.  No disk content is copied.            *)
(***************************************************************************)
ObtainFrame(vm) ==
    IF Cardinality(vm.used_frames) < MAX_FRAMES
    THEN LET g == get_next_free_frame(vm)
         IN  {[vm |-> g.vm, ok |-> TRUE, frame |-> g.frame,
               fresh |-> <<g.frame>>, evicted |-> <<>>]}
    ELSE {[vm |-> e.vm, ok |-> e.ok, frame |-> e.frame, fresh |-> <<>>,
           evicted |-> IF e.ok THEN <<e.frame>> ELSE <<>>] : e \in evict_lfu_frame(vm)}

\* a faulty load, which leaves the table entry as it was
LoadEntry_skipped(vm, segment, page, is_pt, frame) == vm

LoadEntry(vm, segment, page, is_pt, frame) ==
    IF is_pt
    THEN [vm EXCEPT !.PM = PMWrite(@, 2 * segment + 1, frame)]
    ELSE [vm EXCEPT !.PM = PMWrite(@, PMRead(@, 2 * segment + 1) * FRAME_SIZE + page, frame)]

handle_page_fault(vm, segment, page, is_pt) ==
    {IF o.ok THEN [o EXCEPT !.vm = LoadEntry(o.vm, segment, page, is_pt, o.frame)]
             ELSE o : o \in ObtainFrame(vm)}

(***************************************************************************)
(* translate_address.  kind is "pa" (pa is the physical address), "None"   *)
(* (a fault result) or "IndexError" (a read past the end of PM).  pt and   *)
(* pf are the page-table frame and the page frame it accessed.             *)
(***************************************************************************)
VaW(va) == va % 512
VaP(va) == (va \div 512) % 512
VaS(va) == (va \div 262144) % 512
VaPW(va) == va % 262144

TOut(vm, kind, pa, pt, pf, fresh, evicted) ==
    [vm |-> vm, kind |-> kind, pa |-> pa, pt |-> pt, pf |-> pf,
     fresh |-> fresh, evicted |-> evicted]

\* lines 102-108: the page table's frame, faulting it in when it is on disk
ResolvePT(vm, s) ==
    IF PMRead(vm.PM, 2 * s + 1) < 0
    THEN handle_page_fault(vm, s, 0, TRUE)
    ELSE {[vm |-> vm, ok |-> TRUE, frame |-> PMRead(vm.PM, 2 * s + 1),
           fresh |-> <<>>, evicted |-> <<>>]}

\* lines 111-121, after access_frame(pt_loc)
ResolvePage(vm, s, p, w, t) ==
    IF t.frame * FRAME_SIZE + p >= PMLen
    THEN {TOut(vm, "IndexError", 0, t.frame, 0, t.fresh, t.evicted)}
    ELSE IF PMRead(vm.PM, t.frame * FRAME_SIZE + p) < 0
    THEN {IF o.ok
          THEN TOut(access_frame(o.vm, o.frame), "pa", o.frame * FRAME_SIZE + w,
                    t.frame, o.frame, t.fresh \o o.fresh, t.evicted \o o.evicted)
          ELSE TOut(o.vm, "None", 0, t.frame, 0, t.fresh, t.evicted)
          : o \in handle_page_fault(vm, s, p, FALSE)}
    ELSE LET page_frame == PMRead(vm.PM, t.frame * FRAME_SIZE + p)
         IN  {TOut(access_frame(vm, page_frame), "pa", page_frame * FRAME_SIZE + w,
                   t.frame, page_frame, t.fresh, t.evicted)}

\* a faulty translate_address, without the bounds check of lines 99-100
translate_address_unbounded(vm, va) ==
    LET w == VaW(va)
        p == VaP(va)
        s == VaS(va)
    IN  IF s * 2 >= PMLen \/ PMRead(vm.PM, 2 * s) = 0
        THEN {TOut(vm, "None", 0, 0, 0, <<>>, <<>>)}
        ELSE UNION {IF t.ok
                    THEN ResolvePage(access_frame(t.vm, t.frame), s, p, w, t)
                    ELSE {TOut(t.vm, "None", 0, 0, 0, <<>>, <<>>)}
                    : t \in ResolvePT(vm, s)}

translate_address(vm, va) ==
    LET w == VaW(va)
        p == VaP(va)
        s == VaS(va)
        pw == VaPW(va)
    IN  IF s * 2 >= PMLen \/ PMRead(vm.PM, 2 * s) = 0
        THEN {TOut(vm, "None", 0, 0, 0, <<>>, <<>>)}
        ELSE IF pw >= PMRead(vm.PM, 2 * s)
        THEN {TOut(vm, "None", 0, 0, 0, <<>>, <<>>)}
        ELSE UNION {IF t.ok
                    THEN ResolvePage(access_frame(t.vm, t.frame), s, p, w, t)
                    ELSE {TOut(t.vm, "None", 0, 0, 0, <<>>, <<>>)}
                    : t \in ResolvePT(vm, s)}

(***************************************************************************)
(* malloc.  An allocation record is the pair <<num_frames, frame_list>>.   *)
(***************************************************************************)
BlockFree(used, cur_frame, num_frames) ==
    \A offset \in 0..(num_frames - 1) : (cur_frame + offset) \notin used

\* a faulty scan, which starts at frame 2 and stops at any run, free or not
RunStarts_any(vm, num_frames) == 2..(MAX_FRAMES - num_frames)

\* the cur_frame values at which the inner scan of lines 176-196 would stop
RunStarts(vm, num_frames) ==
    {c \in vm.next_free_frame..(MAX_FRAMES - num_frames) :
        BlockFree(vm.used_frames, c, num_frames)}

MinOf(S) == CHOOSE x \in S : \A y \in S : x <= y

\* lines 189-191
NextCandidate(used, c) ==
    CHOOSE nc \in c..Max(c, MAX_FRAMES) :
        /\ nc \notin used \/ nc >= MAX_FRAMES
        /\ \A m \in c..(nc - 1) : m \in used /\ m < MAX_FRAMES

PutKey(fn, k, v) == [x \in DOMAIN fn \cup {k} |-> IF x = k THEN v ELSE fn[x]]

\* lines 183-195
TakeRun(vm, cur_frame, num_frames) ==
    LET frame_list == RunSeq(cur_frame, num_frames)
        used == vm.used_frames \cup SeqRange(frame_list)
    IN  [vm EXCEPT !.used_frames = used,
                   !.highest_frame = IF num_frames > 0
                                     THEN Max(@, cur_frame + num_frames - 1) ELSE @,
                   !.next_free_frame = NextCandidate(used, cur_frame + num_frames),
                   !.allocations = PutKey(@, cur_frame * FRAME_SIZE,
                                          <<num_frames, frame_list>>)]

\* lines 201-211
UnlinkFrame(allocs, lfu_frame) ==
    LET owns(a) == lfu_frame \in SeqRange(allocs[a][2])
        rest(a) == ListRemove(allocs[a][2], lfu_frame)
    IN  [a \in {b \in DOMAIN allocs : ~(owns(b) /\ rest(b) = <<>>)} |->
            IF owns(a) THEN <<Len(rest(a)), rest(a)>> ELSE allocs[a]]

MOut(vm, ret, evicted, scans) ==
    [vm |-> vm, ret |-> ret, evicted |-> evicted, scans |-> scans]

\* a faulty loop, which scans again without evicting and gives up after
\* twice as many attempts
RECURSIVE MallocLoop_spin(_, _, _, _)
MallocLoop_spin(vm, num_frames, attempts, evicted) ==
    IF attempts > 2 * MAX_FRAMES
    THEN {MOut(vm, -1, evicted, attempts)}
    ELSE IF RunStarts(vm, num_frames) # {}
    THEN LET cur_frame == MinOf(RunStarts(vm, num_frames))
         IN  {MOut(TakeRun(vm, cur_frame, num_frames), cur_frame * FRAME_SIZE,
                   evicted, attempts + 1)}
    ELSE MallocLoop_spin(vm, num_frames, attempts + 1, evicted)

\* the while loop of lines 173-213; scans counts the scans made so far
RECURSIVE MallocLoop(_, _, _, _)
MallocLoop(vm, num_frames, attempts, evicted) ==
    IF attempts > MAX_FRAMES
    THEN {MOut(vm, -1, evicted, attempts)}
    ELSE IF RunStarts(vm, num_frames) # {}
    THEN LET cur_frame == MinOf(RunStarts(vm, num_frames))
         IN  {MOut(TakeRun(vm, cur_frame, num_frames), cur_frame * FRAME_SIZE,
                   evicted, attempts + 1)}
    ELSE UNION {IF e.ok
                THEN MallocLoop([e.vm EXCEPT !.allocations = UnlinkFrame(@, e.frame)],
                                num_frames, attempts + 1, Append(evicted, e.frame))
                ELSE {MOut(e.vm, -1, evicted, attempts + 1)}
                : e \in evict_lfu_frame(vm)}

malloc(vm, size) == MallocLoop(vm, CeilDiv(size, FRAME_SIZE), 0, <<>>)

(***************************************************************************)
(* free and realloc                                                        *)
(***************************************************************************)
\* lines 220-224 / 243-247: drop the frames from used_frames and the counters
ReleaseFrames(vm, frames) ==
    [vm EXCEPT !.used_frames = @ \ frames,
               !.frame_access_count = [f \in DOMAIN @ \ frames |-> @[f]]]

free(vm, address) ==
    IF address \notin DOMAIN vm.allocations
    THEN [vm |-> vm, ret |-> FALSE]
    ELSE [vm |-> [ReleaseFrames(vm, SeqRange(vm.allocations[address][2]))
                     EXCEPT !.allocations = DropKey(@, address)],
          ret |-> TRUE]

\* a faulty shrink, which releases the frames and keeps the record as it was
Shrink_untruncated(vm, address, new_num_frames) ==
    ReleaseFrames(vm, SeqRange(SliceFrom(vm.allocations[address][2], new_num_frames)))

\* lines 241-249
Shrink(vm, address, new_num_frames) ==
    LET old_frames == vm.allocations[address][2]
    IN  [ReleaseFrames(vm, SeqRange(SliceFrom(old_frames, new_num_frames)))
            EXCEPT !.allocations[address] =
                       <<new_num_frames, SliceTo(old_frames, new_num_frames)>>]

\* path names the branch taken: "unknown", "same", "shrink", "grow"
ROut(vm, ret, evicted, scans, path) ==
    [vm |-> vm, ret |-> ret, evicted |-> evicted, scans |-> scans, path |-> path]

\* a faulty realloc, which treats an unknown address as a request for a new block
realloc_unknown_as_malloc(vm, address, new_size) ==
    IF address \notin DOMAIN vm.allocations
    THEN {ROut(m.vm, m.ret, m.evicted, m.scans, "unknown") : m \in malloc(vm, new_size)}
    ELSE LET old_num_frames == vm.allocations[address][1]
             new_num_frames == CeilDiv(new_size, FRAME_SIZE)
         IN  IF new_num_frames = old_num_frames
             THEN {ROut(vm, address, <<>>, 0, "same")}
             ELSE IF new_num_frames < old_num_frames
             THEN {ROut(Shrink(vm, address, new_num_frames), address, <<>>, 0, "shrink")}
             ELSE {IF m.ret = -1
                   THEN ROut(m.vm, -1, m.evicted, m.scans, "grow")
                   ELSE ROut(free(m.vm, address).vm, m.ret, m.evicted, m.scans, "grow")
                   : m \in malloc(vm, new_size)}

realloc(vm, address, new_size) ==
    IF address \notin DOMAIN vm.allocations
    THEN {ROut(vm, -1, <<>>, 0, "unknown")}
    ELSE LET old_num_frames == vm.allocations[address][1]
             new_num_frames == CeilDiv(new_size, FRAME_SIZE)
         IN  IF new_num_frames = old_num_frames
             THEN {ROut(vm, address, <<>>, 0, "same")}
             ELSE IF new_num_frames < old_num_frames
             THEN {ROut(Shrink(vm, address, new_num_frames), address, <<>>, 0, "shrink")}
             ELSE {IF m.ret = -1
                   THEN ROut(m.vm, -1, m.evicted, m.scans, "grow")
                   ELSE ROut(free(m.vm, address).vm, m.ret, m.evicted, m.scans, "grow")
                   : m \in malloc(vm, new_size)}

(***************************************************************************)
(* The inputs.  Initialization files reference only frames below           *)
(* MAX_FRAMES.  File 1 is the scenario "0 100 2" / "0 0 3"; file 2 has a   *)
(* resident page table with one page resident and one on disk; file 3 has  *)
(* its page table on disk block 1 and records the last frame of physical   *)
(* memory for a page; file 4 is empty; file 5 has segment 1's page table   *)
(* on disk block 3; file 6 has a resident page table whose one page is on  *)
(* disk, and leaves two frames above it for the allocator.                 *)
(***************************************************************************)
Va(s, p, w) == s * 262144 + p * 512 + w

Files ==
    << [segments |-> << <<0, 100, 2>> >>,
        pages    |-> << <<0, 0, 3>> >>],
       [segments |-> << <<0, 1024, 2>> >>,
        pages    |-> << <<0, 0, MAX_FRAMES - 2>>, <<0, 1, -7>> >>],
       [segments |-> << <<0, 1024, -1>> >>,
        pages    |-> << <<0, 0, MAX_FRAMES - 1>> >>],
       [segments |-> << >>,
        pages    |-> << >>],
       [segments |-> << <<1, 600, -3>> >>,
        pages    |-> << <<1, 0, MAX_FRAMES - 2>> >>],
       [segments |-> << <<0, 100, MAX_FRAMES - 3>> >>,
        pages    |-> << <<0, 0, -7>> >>] >>

VAs == {Va(0, 0, 5), Va(0, 0, 150), Va(0, 1, 5), Va(1, 0, 5)}

Sizes == {-512, 0, 1, 1024}

Addrs == {f * FRAME_SIZE : f \in 2..MAX_FRAMES}

(***************************************************************************)
(* last observes the latest call: which method (op), its first argument    *)
(* (arg: the virtual address, the size or the address), whether it repeats *)
(* the call before it, a successful translate or free of the same address  *)
(* (rep), how it ended (kind), what it returned (ret), the frames          *)
(* get_next_free_frame returned (fresh) and the frames evict_lfu_frame     *)
(* chose (evicted) during it, in order, and the number of scans malloc     *)
(* made.  nonpos_calls counts the requests of a size of 0 or less made so  *)
(* far.                                                                    *)
(***************************************************************************)
Obs(op, arg, kind, ret, fresh, evicted, scans) ==
    [op |-> op, arg |-> arg, rep |-> FALSE, kind |-> kind, ret |-> ret,
     fresh |-> fresh, evicted |-> evicted, scans |-> scans]

Install(vm) ==
    /\ PM' = vm.PM
    /\ DISK' = vm.DISK
    /\ used_frames' = vm.used_frames
    /\ next_free_frame' = vm.next_free_frame
    /\ highest_frame' = vm.highest_frame
    /\ frame_access_count' = vm.frame_access_count
    /\ allocations' = vm.allocations

RECURSIVE SumCounts(_, _)
SumCounts(fac, frames) ==
    IF frames = {} THEN 0
    ELSE LET f == CHOOSE x \in frames : TRUE
         IN  fac[f] + SumCounts(fac, frames \ {f})

CountsCapped(vm) ==
    SumCounts(vm.frame_access_count, DOMAIN vm.frame_access_count) <= MaxAccess

Budget(size) ==
    /\ size > 0 \/ nonpos_calls < MaxNonPositive
    /\ nonpos_calls' = IF size > 0 THEN nonpos_calls ELSE nonpos_calls + 1

Init ==
    /\ phase = "new"
    /\ PM = NewVM.PM
    /\ DISK = NewVM.DISK
    /\ used_frames = NewVM.used_frames
    /\ next_free_frame = NewVM.next_free_frame
    /\ highest_frame = NewVM.highest_frame
    /\ frame_access_count = NewVM.frame_access_count
    /\ allocations = NewVM.allocations
    /\ last = Obs("new", 0, "ok", 0, <<>>, <<>>, 0)
    /\ nonpos_calls = 0

Initialize(i) ==
    /\ phase = "new"
    /\ phase' = "ready"
    /\ Install(initialize_from_file(VM, Files[i]))
    /\ last' = Obs("init", i, "ok", 0, <<>>, <<>>, 0)
    /\ UNCHANGED nonpos_calls

Translate(va) ==
    /\ phase = "ready"
    /\ \E o \in translate_address(VM, va) :
        /\ CountsCapped(o.vm)
        /\ Install(o.vm)
        /\ last' = [Obs("translate", va, o.kind, o.pa, o.fresh, o.evicted, 0)
                        EXCEPT !.rep = (last.op = "translate" /\ last.kind = "pa"
                                        /\ last.arg = va)]
    /\ UNCHANGED <<phase, nonpos_calls>>

Malloc(size) ==
    /\ phase = "ready"
    /\ Budget(size)
    /\ \E o \in malloc(VM, size) :
        /\ Install(o.vm)
        /\ last' = Obs("malloc", size, IF o.ret = -1 THEN "fail" ELSE "addr", o.ret,
                       <<>>, o.evicted, o.scans)
    /\ UNCHANGED phase

Free(address) ==
    /\ phase = "ready"
    /\ Install(free(VM, address).vm)
    /\ last' = [Obs("free", address,
                     IF free(VM, address).ret THEN "True" ELSE "False", 0,
                     <<>>, <<>>, 0)
                    EXCEPT !.rep = (last.op = "free" /\ last.kind = "True"
                                    /\ last.arg = address)]
    /\ UNCHANGED <<phase, nonpos_calls>>

Realloc(address, new_size) ==
    /\ phase = "ready"
    /\ Budget(new_size)
    /\ \E o \in realloc(VM, address, new_size) :
        /\ Install(o.vm)
        /\ last' = Obs("realloc", address, o.path, o.ret, <<>>, o.evicted, o.scans)
    /\ UNCHANGED phase

Next ==
    \/ \E i \in 1..Len(Files) : Initialize(i)
    \/ \E va \in VAs : Translate(va)
    \/ \E size \in Sizes : Malloc(size)
    \/ \E address \in Addrs : Free(address)
    \/ \E address \in Addrs, new_size \in Sizes : Realloc(address, new_size)

Spec == Init /\ [][Next]_vars

(***************************************************************************)
(* Notions the claims use                                                  *)
(***************************************************************************)
Ready == phase = "ready"

\* the frames of resident page tables: the positive segment-table entries
ResidentTables ==
    {f \in {PM[i] : i \in {j \in DOMAIN PM : j < 2 * FRAME_SIZE /\ j % 2 = 1}} : f > 0}

\* the frames of resident pages: the positive entries of resident page tables
ResidentPages ==
    {f \in {PM[i] : i \in {j \in DOMAIN PM : (j \div FRAME_SIZE) \in ResidentTables}} :
        f > 0}

AllocatedFrames == UNION {SeqRange(allocations[a][2]) : a \in DOMAIN allocations}

BackingFrames == Reserved \cup ResidentTables \cup ResidentPages \cup AllocatedFrames

SegSize(va) == PMRead(PM, 2 * VaS(va))
PTLoc(va) == PMRead(PM, 2 * VaS(va) + 1)
PTEntryIndex(va) == PTLoc(va) * FRAME_SIZE + VaP(va)

\* the counters after one access of t and one access of f
Bumped(fac, t, f) ==
    [x \in DOMAIN fac \cup {t, f} |->
        Count(fac, x) + (IF x = t THEN 1 ELSE 0) + (IF x = f THEN 1 ELSE 0)]

FirstFrames(q, k) == [i \in 1..(IF k < 0 THEN 0 ELSE IF k > Len(q) THEN Len(q) ELSE k) |-> q[i]]

FramesAfter(q, k) == SeqRange(q) \ SeqRange(FirstFrames(q, k))

(***************************************************************************)
(* C1: in every reachable state a frame is in used_frames iff it backs a   *)
(* resident page table, a resident page or an allocation record (frames 0  *)
(* and 1 backing the segment table).  The code violates it: eviction       *)
(* leaves the table entry of the evicted frame in place, and a frame       *)
(* reused by the page-fault handler is not put back into used_frames.      *)
(***************************************************************************)
C1_UsedIffBacking == used_frames = BackingFrames

(***************************************************************************)
(* C2: for va = (s, p, w) in bounds of a segment whose page table is       *)
(* resident at t > 0 and whose entry p is a frame f > 0, translate returns *)
(* f * FRAME_SIZE + w, accesses t once and f once, and changes nothing     *)
(* else; after initialization from "0 100 2" / "0 0 3", (0, 0, 5)          *)
(* translates to 1541.                                                     *)
(***************************************************************************)
C2_Pre(va) ==
    /\ SegSize(va) # 0
    /\ VaPW(va) < SegSize(va)
    /\ PTLoc(va) > 0
    /\ PTEntryIndex(va) < PMLen
    /\ PMRead(PM, PTEntryIndex(va)) > 0

C2_ResidentTranslate ==
    Ready =>
        /\ \A va \in VAs :
            C2_Pre(va) =>
                LET t == PTLoc(va)
                    f == PMRead(PM, PTEntryIndex(va))
                IN  translate_address(VM, va) =
                        {TOut([VM EXCEPT !.frame_access_count = Bumped(@, t, f)],
                              "pa", f * FRAME_SIZE + VaW(va), t, f, <<>>, <<>>)}
        /\ (last.op = "init" /\ last.arg = 1) =>
                \A o \in translate_address(VM, Va(0, 0, 5)) :
                    o.kind = "pa" /\ o.pa = 1541

\* the scenario's translation has been made, with both frames resident
C2_Witness ==
    /\ last.op = "translate" /\ last.kind = "pa" /\ last.ret = 1541
    /\ last.fresh = <<>> /\ last.evicted = <<>>
    /\ Count(frame_access_count, 2) >= 1 /\ Count(frame_access_count, 3) >= 1

(***************************************************************************)
(* C3: translate returns the fault result and changes no part of the state *)
(* when the segment's size is 0 or when pw >= the segment's size.          *)
(***************************************************************************)
C3_FaultNoChange ==
    Ready =>
        \A va \in VAs :
            (SegSize(va) = 0 \/ VaPW(va) >= SegSize(va)) =>
                translate_address(VM, va) = {TOut(VM, "None", 0, 0, 0, <<>>, <<>>)}

\* a translate has returned the fault result in a state with a segment
C3_Witness ==
    /\ last.op = "translate" /\ last.kind = "None"
    /\ \E va \in VAs : SegSize(va) # 0 /\ VaPW(va) >= SegSize(va)
    /\ \E va \in VAs : SegSize(va) = 0

(***************************************************************************)
(* C4: frames 0 and 1 are never returned by get_next_free_frame, never     *)
(* chosen by evict_lfu_frame and never removed from used_frames, and never *)
(* appear in the frame list of an allocation record.                       *)
(***************************************************************************)
C4_ReservedUntouched ==
    /\ Reserved \subseteq used_frames
    /\ SeqRange(last.fresh) \cap Reserved = {}
    /\ SeqRange(last.evicted) \cap Reserved = {}
    /\ AllocatedFrames \cap Reserved = {}

\* the page-fault handler has evicted a frame while an allocation record exists
C4_Witness ==
    /\ last.op = "translate" /\ last.evicted # <<>>
    /\ AllocatedFrames # {}

(***************************************************************************)
(* C5: a malloc that succeeds without evicting, followed at once by free   *)
(* of the address it returned: free returns true, and used_frames and      *)
(* allocations are what they were before the malloc.  The code violates    *)
(* it: a request of 0 words records <<0, <<>>>> under the cursor's address *)
(* and leaves the cursor there, so the next malloc returns the same        *)
(* address and overwrites the record, which the free then deletes.         *)
(***************************************************************************)
C5_MallocFreeRestores ==
    Ready =>
        \A size \in Sizes :
            \A m \in malloc(VM, size) :
                (m.ret # -1 /\ m.evicted = <<>>) =>
                    /\ free(m.vm, m.ret).ret
                    /\ free(m.vm, m.ret).vm.used_frames = used_frames
                    /\ free(m.vm, m.ret).vm.allocations = allocations

(***************************************************************************)
(* C6: when realloc has to grow the block and its malloc fails, realloc    *)
(* returns -1 and the old record is still there with the same frame list,  *)
(* its frames still in used_frames.  The code violates it: the failing     *)
(* malloc has evicted every frame, those of the old block included.        *)
(***************************************************************************)
C6_FailedGrowKeepsBlock ==
    Ready =>
        \A address \in DOMAIN allocations, new_size \in Sizes :
            \A o \in realloc(VM, address, new_size) :
                (o.path = "grow" /\ o.ret = -1) =>
                    /\ address \in DOMAIN o.vm.allocations
                    /\ o.vm.allocations[address] = allocations[address]
                    /\ SeqRange(allocations[address][2]) \subseteq o.vm.used_frames

(***************************************************************************)
(* C7: free and realloc of an address that keys no allocation record       *)
(* return False and -1 and leave the whole state unchanged.                *)
(***************************************************************************)
C7_UnknownAddress ==
    Ready =>
        \A address \in Addrs \ DOMAIN allocations :
            /\ free(VM, address) = [vm |-> VM, ret |-> FALSE]
            /\ \A new_size \in Sizes :
                \A o \in realloc(VM, address, new_size) : o.vm = VM /\ o.ret = -1

\* an address has been freed and then freed again
C7_Witness == last.op = "free" /\ last.rep /\ last.kind = "False"

(***************************************************************************)
(* C8: a successful translate repeated at once on the same address returns *)
(* the same physical address, and the counters of the page-table frame and *)
(* of the page frame are strictly larger after the second call than after  *)
(* the first.                                                              *)
(***************************************************************************)
C8_RepeatedTranslate ==
    Ready =>
        \A va \in VAs :
            \A o \in translate_address(VM, va) :
                o.kind = "pa" =>
                    \A o2 \in translate_address(o.vm, va) :
                        /\ o2.kind = "pa"
                        /\ o2.pa = o.pa
                        /\ o2.pt = o.pt /\ o2.pf = o.pf
                        /\ Count(o2.vm.frame_access_count, o.pt)
                               > Count(o.vm.frame_access_count, o.pt)
                        /\ Count(o2.vm.frame_access_count, o.pf)
                               > Count(o.vm.frame_access_count, o.pf)

\* a translate that followed a successful translate of the same address
C8_Witness == last.op = "translate" /\ last.rep /\ last.kind = "pa"

(***************************************************************************)
(* C9: realloc of a known address to the record's frame count changes      *)
(* nothing and returns the address; to a smaller count it returns the      *)
(* address, the record keeps the first ceil(new_size / FRAME_SIZE) frames  *)
(* of its list, exactly the frames after them leave used_frames and the    *)
(* counters, and the other records are unchanged.  C9_AnySize states it    *)
(* for every new_size, C9_NonNegativeCount for the sizes whose frame count *)
(* is 0 or more: for a negative count the code keeps old_frames[:count],   *)
(* all but the last -count frames.                                         *)
(***************************************************************************)
C9_Case(address, new_size) ==
    LET rec == allocations[address]
        n == CeilDiv(new_size, FRAME_SIZE)
        gone == FramesAfter(rec[2], n)
    IN  /\ n = rec[1] => realloc(VM, address, new_size) = {ROut(VM, address, <<>>, 0, "same")}
        /\ n < rec[1] =>
            \A o \in realloc(VM, address, new_size) :
                /\ o.ret = address
                /\ o.path = "shrink"
                /\ DOMAIN o.vm.allocations = DOMAIN allocations
                /\ o.vm.allocations[address][2] = FirstFrames(rec[2], n)
                /\ \A a \in DOMAIN allocations \ {address} :
                       o.vm.allocations[a] = allocations[a]
                /\ o.vm.used_frames = used_frames \ gone
                /\ o.vm.frame_access_count =
                       [f \in DOMAIN frame_access_count \ gone |-> frame_access_count[f]]
                /\ o.vm.PM = PM
                /\ o.vm.next_free_frame = next_free_frame
                /\ o.vm.highest_frame = highest_frame

C9_AnySize ==
    Ready =>
        \A address \in DOMAIN allocations, new_size \in Sizes :
            C9_Case(address, new_size)

C9_NonNegativeCount ==
    Ready =>
        \A address \in DOMAIN allocations, new_size \in Sizes :
            CeilDiv(new_size, FRAME_SIZE) >= 0 => C9_Case(address, new_size)

\* a realloc has shrunk a record to one frame and released a frame
C9_Witness ==
    /\ last.op = "realloc" /\ last.kind = "shrink"
    /\ last.ret \in DOMAIN allocations
    /\ allocations[last.ret][1] = 1
    /\ Len(allocations[last.ret][2]) = 1
    /\ allocations[last.ret][2][1] + 1 \notin used_frames

(***************************************************************************)
(* C10: with an initialization that references only frames below           *)
(* MAX_FRAMES, every frame the page-fault handler hands out and every      *)
(* frame of an allocation record is in 2..MAX_FRAMES - 1, every frame of   *)
(* used_frames is below MAX_FRAMES and every physical address translate    *)
(* returns is below MAX_FRAMES * FRAME_SIZE.  The code violates it:        *)
(* get_next_free_frame starts above highest_frame and has no upper limit.  *)
(***************************************************************************)
C10_FramesInRange ==
    /\ \A f \in SeqRange(last.fresh) \cup AllocatedFrames : 2 <= f /\ f < MAX_FRAMES
    /\ \A f \in used_frames : f < MAX_FRAMES
    /\ (last.op = "translate" /\ last.kind = "pa") => last.ret < PMLen

(***************************************************************************)
(* C11: for a request of 1 word or more, when a run of                     *)
(* ceil(size / FRAME_SIZE) consecutive frames absent from used_frames      *)
(* exists in 2..MAX_FRAMES - 1, malloc returns an address and evicts       *)
(* nothing (so malloc evicts only when no such run exists).  The code      *)
(* violates it: the scan starts at next_free_frame and never looks below   *)
(* it, so frames released by free below the cursor are not found.          *)
(***************************************************************************)
FreeRunExists(used, num_frames) ==
    \E c \in 2..(MAX_FRAMES - num_frames) : BlockFree(used, c, num_frames)

C11_EvictsOnlyWithoutRun ==
    Ready =>
        \A size \in {z \in Sizes : z >= 1} :
            FreeRunExists(used_frames, CeilDiv(size, FRAME_SIZE)) =>
                \A m \in malloc(VM, size) : m.ret # -1 /\ m.evicted = <<>>

(***************************************************************************)
(* C12: when translate brings in the page table of segment s from disk     *)
(* block b, the entry it consults for page p is the one initialization     *)
(* recorded for (s, p) in DISK[b][p]: if that entry is a frame f > 0 the   *)
(* translation returns f * FRAME_SIZE + w.  The code violates it: the      *)
(* handler copies nothing from DISK, and the entry read is whatever the    *)
(* newly assigned frame held.                                              *)
(***************************************************************************)
C12_TableCopiedFromDisk ==
    Ready =>
        \A va \in VAs :
            (/\ SegSize(va) # 0
             /\ VaPW(va) < SegSize(va)
             /\ PTLoc(va) < 0
             /\ PMRead(DISK, <<-PTLoc(va), VaP(va)>>) > 0) =>
                \A o \in translate_address(VM, va) :
                    o.kind = "pa" =>
                        o.pa = PMRead(DISK, <<-PTLoc(va), VaP(va)>>) * FRAME_SIZE + VaW(va)

(***************************************************************************)
(* C13: evict_lfu_frame chooses a frame whose access count (absent counts  *)
(* as 0) is minimal among used_frames minus frames 0 and 1, removes        *)
(* exactly that frame from used_frames and deletes its counter, changing   *)
(* nothing else; and a page fault raised by translate while used_frames    *)
(* holds MAX_FRAMES frames writes such a frame, least frequently used when *)
(* the handler is called, into the faulting table entry.  The handler does *)
(* not look at the entry it replaces, so the page-table case is stated for *)
(* every segment that exists, whether its table is on disk or resident.    *)
(***************************************************************************)
C13_IsLfu(vm, f) ==
    /\ f \in vm.used_frames \ {0, 1}
    /\ \A g \in vm.used_frames \ {0, 1} :
           Count(vm.frame_access_count, f) <= Count(vm.frame_access_count, g)

\* the handler called on vm for the table entry PM[entry]
C13_Fault(vm, s, p, is_pt, entry) ==
    \A o \in handle_page_fault(vm, s, p, is_pt) :
        o.ok =>
            /\ C13_IsLfu(vm, o.frame)
            /\ o.evicted = <<o.frame>>
            /\ PMRead(o.vm.PM, entry) = o.frame

C13_EvictsLfu ==
    Ready =>
        /\ \A e \in evict_lfu_frame(VM) :
            e.ok =>
                /\ C13_IsLfu(VM, e.frame)
                /\ e.vm = [VM EXCEPT
                              !.used_frames = @ \ {e.frame},
                              !.frame_access_count =
                                  [x \in DOMAIN @ \ {e.frame} |-> @[x]]]
        /\ Cardinality(used_frames) = MAX_FRAMES =>
            \A va \in VAs :
                (SegSize(va) # 0 /\ VaPW(va) < SegSize(va)) =>
                    /\ C13_Fault(VM, VaS(va), 0, TRUE, 2 * VaS(va) + 1)
                    /\ (PTLoc(va) > 0 /\ PTEntryIndex(va) < PMLen
                        /\ PMRead(PM, PTEntryIndex(va)) < 0) =>
                        C13_Fault(access_frame(VM, PTLoc(va)), VaS(va), VaP(va),
                                  FALSE, PTEntryIndex(va))

\* a translate has faulted with a full pool: the handler evicted a frame
\* and a table entry names it
C13_Witness ==
    /\ last.op = "translate" /\ last.kind = "pa"
    /\ Len(last.evicted) = 1
    /\ Cardinality(used_frames) = MAX_FRAMES - 1
    /\ \E i \in DOMAIN PM : i >= 2 * FRAME_SIZE /\ PM[i] = last.evicted[1]
    /\ last.ret \div FRAME_SIZE = last.evicted[1]

(***************************************************************************)
(* C14: in every reachable state the page-fault handler, called as         *)
(* translate calls it, returns a frame and never None; and translate       *)
(* returns the fault result only when the segment's size is 0 or pw is at  *)
(* or beyond the segment's size.                                           *)
(***************************************************************************)
C14_HandlerSucceeds ==
    Ready =>
        \A va \in VAs :
            /\ (SegSize(va) # 0 /\ VaPW(va) < SegSize(va)) =>
                /\ PTLoc(va) < 0 =>
                    \A o \in handle_page_fault(VM, VaS(va), 0, TRUE) : o.ok
                /\ (PTLoc(va) > 0 /\ PTEntryIndex(va) < PMLen
                    /\ PMRead(PM, PTEntryIndex(va)) < 0) =>
                    \A o \in handle_page_fault(access_frame(VM, PTLoc(va)),
                                               VaS(va), VaP(va), FALSE) : o.ok
            /\ \A o \in translate_address(VM, va) :
                o.kind = "None" => (SegSize(va) = 0 \/ VaPW(va) >= SegSize(va))

\* the handler has been called with no free frame left and returned a frame
C14_Witness ==
    /\ last.op = "translate" /\ last.kind = "pa"
    /\ last.fresh = <<>> /\ last.evicted # <<>>
    /\ Reserved \subseteq used_frames

(***************************************************************************)
(* C15: every allocation record with a frame in its list is keyed by       *)
(* first_frame * FRAME_SIZE, where first_frame is the first frame of the   *)
(* list, also after a later malloc evicted frames of the record.  The code *)
(* violates it: when malloc evicts the first frame of a record that keeps  *)
(* other frames, lines 201-211 shorten the list and leave the key as it    *)
(* was.  A record keeps other frames when the page-fault handler evicted   *)
(* them earlier, which leaves them in the list and out of used_frames.     *)
(***************************************************************************)
C15_KeyedByFirst ==
    \A a \in DOMAIN allocations :
        allocations[a][2] # <<>> => a = allocations[a][2][1] * FRAME_SIZE

(***************************************************************************)
(* C16: from every reachable state every call of malloc terminates: it     *)
(* returns -1 or the address of the record it made, after one scan and at  *)
(* most MAX_FRAMES retries, each of them an eviction followed by one more  *)
(* scan.                                                                   *)
(***************************************************************************)
C16_MallocBounded ==
    Ready =>
        \A size \in Sizes :
            /\ malloc(VM, size) # {}
            /\ \A m \in malloc(VM, size) :
                /\ m.scans - 1 <= MAX_FRAMES
                /\ m.scans - 1 <= Len(m.evicted)
                /\ m.ret = -1 \/ m.ret \in DOMAIN m.vm.allocations

\* a malloc has evicted every frame of a full pool, scanning after each
\* eviction, and failed
C16_Witness ==
    /\ last.op = "malloc" /\ last.kind = "fail"
    /\ Len(last.evicted) = MAX_FRAMES - 2
    /\ last.scans = MAX_FRAMES - 1
    /\ used_frames = Reserved

(***************************************************************************)
(* C17: no call of translate, malloc, free or realloc, whatever the size   *)
(* it is given, lowers highest_frame or next_free_frame.  The code         *)
(* violates it: for a negative size malloc takes an empty run at the       *)
(* cursor and sets the cursor to cur_frame + num_frames, below cur_frame.  *)
(***************************************************************************)
C17_CursorsNeverDecrease ==
    [][Ready => /\ highest_frame' >= highest_frame
                /\ next_free_frame' >= next_free_frame]_vars

(***************************************************************************)
(* C18: whenever the page-fault handler, called as translate calls it,     *)
(* returns a frame, fresh or evicted, that frame is in used_frames on      *)
(* return.  The code violates it: evict_lfu_frame removes the frame from   *)
(* used_frames and the handler reuses it without adding it back.           *)
(***************************************************************************)
C18_Returned(vm, s, p, is_pt) ==
    \A o \in handle_page_fault(vm, s, p, is_pt) :
        o.ok => o.frame \in o.vm.used_frames

C18_ReturnedFrameUsed ==
    Ready =>
        \A va \in VAs :
            (SegSize(va) # 0 /\ VaPW(va) < SegSize(va)) =>
                /\ PTLoc(va) < 0 => C18_Returned(VM, VaS(va), 0, TRUE)
                /\ (PTLoc(va) > 0 /\ PTEntryIndex(va) < PMLen
                    /\ PMRead(PM, PTEntryIndex(va)) < 0) =>
                    C18_Returned(access_frame(VM, PTLoc(va)), VaS(va), VaP(va), FALSE)

(***************************************************************************)
(* C19: a physical address returned by translate is never inside frames 0  *)
(* and 1: it is at least 2 * FRAME_SIZE, also when the page-table entry    *)
(* read is 0 or the page table was just brought in by a page fault.  The   *)
(* code violates it: an entry of 0 is not negative, so it is taken for the *)
(* resident frame 0 and the result is 0 * FRAME_SIZE + w.                  *)
(***************************************************************************)
C19_AboveReserved ==
    Ready =>
        \A va \in VAs :
            \A o \in translate_address(VM, va) :
                o.kind = "pa" => o.pa >= 2 * FRAME_SIZE

(***************************************************************************)
(* C20: while every size requested so far was 1 word or more, the frame    *)
(* lists of the allocation records are pairwise disjoint, and every frame  *)
(* a successful malloc of 1 word or more puts into its new record was,     *)
(* just before the call's final scan (that is, after its evictions),       *)
(* neither in used_frames nor in the list of any record.                   *)
(***************************************************************************)
RECURSIVE C20_AfterEvictions(_, _)
C20_AfterEvictions(allocs, evicted) ==
    IF evicted = <<>> THEN allocs
    ELSE C20_AfterEvictions(UnlinkFrame(allocs, Head(evicted)), Tail(evicted))

C20_FramesOf(allocs) == UNION {SeqRange(allocs[a][2]) : a \in DOMAIN allocs}

C20_DisjointRecords ==
    (Ready /\ nonpos_calls = 0) =>
        /\ \A a, b \in DOMAIN allocations :
            a # b => SeqRange(allocations[a][2]) \cap SeqRange(allocations[b][2]) = {}
        /\ \A size \in {z \in Sizes : z >= 1} :
            \A m \in malloc(VM, size) :
                m.ret # -1 =>
                    LET new == SeqRange(m.vm.allocations[m.ret][2])
                    IN  /\ new # {}
                        /\ new \cap (used_frames \ SeqRange(m.evicted)) = {}
                        /\ new \cap C20_FramesOf(C20_AfterEvictions(allocations, m.evicted))
                               = {}

\* a malloc of 1 word or more has added a record to another record, of two
\* frames, in a run of calls whose sizes were all 1 word or more
C20_Witness ==
    /\ nonpos_calls = 0
    /\ last.op = "malloc" /\ last.kind = "addr" /\ last.arg >= 1
    /\ last.ret \in DOMAIN allocations
    /\ \E a \in DOMAIN allocations \ {last.ret} : Len(allocations[a][2]) = 2

====
